---- MODULE Spec2Model ----
(***************************************************************************)
(* Credit-approval backend: the Customer and Loan tables, the credit       *)
(* scorer, the EMI calculator, the eligibility decider and the             *)
(* register_customer / check_eligibility / create_loan endpoints.          *)
(*                                                                         *)
(* Money is counted in hundredths of the currency unit (the two decimal    *)
(* places of the DecimalFields).  A Decimal that need not have two places  *)
(* (the zero-rate installment P / n) is a fraction [num, den] of           *)
(* hundredths in lowest terms.  Interest rates are whole percents.         *)
(* Dates are counted in months; twelve consecutive months form a year.     *)
(***************************************************************************)
EXTENDS Integers, FiniteSets, Sequences, TLC

\* ---------------------------------------------------------------- bounds
\* No more than MaxLoans rows are ever inserted into the Loan table.
MaxLoans == 2
\* The clock stops at month MaxToday.
MaxToday == 24
\* No more than MaxCustomers rows are ever in the Customer table.
MaxCustomers == 3
\* The scorer is applied to histories of up to MaxHistory loans.
MaxHistory == 6

\* ------------------------------------------------------------ input sets
\* The month the system starts in: December of year 1.
StartMonths == {23}
\* Customer ids that requests may carry; only RegisteredIds are in the table.
CustomerIds == {1, 2}
RegisteredIds == {1}
Salaries == {1000}
Limits == {0, 1000}
\* Fields of the loans already in the table when the system starts.
HistoryLoanIds == {1, 2}
HistoryAmounts == {400, 800}
HistoryTenures == {2}
HistoryRepayments == {100, 300}
HistoryOnTime == {0, 2, 5}
\* [start_date, end_date] relative to the starting month: a loan that ended
\* in the previous year, and one that started this year and is still running.
HistoryPeriods == {<<-13, -12>>, <<-1, 2>>}
\* Requests.
Amounts == {101, 400}
Rates == {0, 9, 12, 16}
Tenures == {1, 2}
\* Rates of the requests sent to the endpoints.
EndpointRates == {0, 12}
Workers == {1, 2}
\* Arguments of direct calls of the EMI calculator: principals down to 0.00 and
\* 0.01, tenures down to 0 and -1, and rates whose monthly rate r is a
\* terminating decimal.
CalcAmounts == {0, 1, 50, 101, 400, 1000}
CalcRates == {0, 12, 72, 120}
CalcTenures == {-1, 0, 1, 2, 3}
\* Registration requests: monthly incomes from -1.00 to 75000.00, among them
\* 1388.88 and 1388.89 (36 times which lie just below and above half a lakh)
\* and 12500.00 and 37500.00 (36 times which are 4.5 and 13.5 lakh).
RegisterIncomes ==
    {-100, 0, 1000, 138888, 138889, 416667, 1250000, 3750000, 5000000, 7500000}
RegisterAges == {17, 30}
\* Loans of the histories the scorer is applied to, with limit 10.00: a loan
\* closed in the previous year and paid on time, a loan started this year and
\* still running, and a running loan that started before this year and ends
\* after it.
ScorerTemplates ==
    {[loan_amount |-> 150, tenure |-> 2, monthly_repayment |-> 50,
      emis_paid_on_time |-> 2, period |-> <<-13, -12>>],
     [loan_amount |-> 150, tenure |-> 2, monthly_repayment |-> 50,
      emis_paid_on_time |-> 0, period |-> <<-1, 2>>],
     [loan_amount |-> 200, tenure |-> 15, monthly_repayment |-> 50,
      emis_paid_on_time |-> 0, period |-> <<-13, 2>>]}
ScorerRates == {9, 16}

VARIABLES
    customers,  \* Customer table: customer_id -> [monthly_salary, approved_limit,
                \* current_debt]
    loans,      \* Loan table: a set of rows, loan_id is the primary key
    today,      \* date.today()
    last,       \* the most recent request served, with its decision and response
    inflight    \* create_loan requests being served concurrently, per worker

vars == <<customers, loans, today, last, inflight>>

\* ----------------------------------------------------------- arithmetic
Min(a, b) == IF a < b THEN a ELSE b
Max(a, b) == IF a > b THEN a ELSE b

RECURSIVE GCD(_, _)
GCD(a, b) == IF b = 0 THEN a ELSE GCD(b, a % b)

RECURSIVE Pow(_, _)
Pow(b, n) == IF n = 0 THEN 1 ELSE b * Pow(b, n - 1)

\* Django's Sum aggregate over a queryset, with the "or 0" of the callers.
RECURSIVE Sum(_, _)
Sum(rows, field) ==
    IF rows = {} THEN 0
    ELSE LET row == CHOOSE x \in rows : TRUE
         IN row[field] + Sum(rows \ {row}, field)

\* A fraction of hundredths in lowest terms.
Frac(num, den) == LET g == GCD(num, den) IN [num |-> num \div g, den |-> den \div g]

\* quantize with ROUND_DOWN.
quantize_down(num, den) == num \div den

\* Decimal.quantize(Decimal('0.01')) under the default context of the decimal
\* module, whose rounding is ROUND_HALF_EVEN.
quantize(num, den) ==
    LET q == num \div den
        rem == num % den
    IN IF 2 * rem < den THEN q
       ELSE IF 2 * rem > den THEN q + 1
       ELSE IF q % 2 = 0 THEN q ELSE q + 1

\* ------------------------------------------------------------ the scorer
date_year(d) == d \div 12

all_loans(customer_id) == {l \in loans : l.customer = customer_id}

current_loans(customer_id) == {l \in all_loans(customer_id) : l.end_date >= today}

on_time_component(total_emis, total_emis_paid_on_time) ==
    IF total_emis > 0 THEN (total_emis_paid_on_time * 40) \div total_emis ELSE 0

\* The loan-count table with five loans in the last band.
loan_count_component_five_last(total_loans) ==
    IF total_loans = 0 THEN 20
    ELSE IF total_loans = 1 THEN 18
    ELSE IF total_loans = 2 THEN 15
    ELSE IF total_loans = 3 THEN 12
    ELSE IF total_loans < 5 THEN 8
    ELSE 5

loan_count_component(total_loans) ==
    IF total_loans = 0 THEN 20
    ELSE IF total_loans = 1 THEN 18
    ELSE IF total_loans = 2 THEN 15
    ELSE IF total_loans = 3 THEN 12
    ELSE IF total_loans <= 5 THEN 8
    ELSE 5

\* The recent-activity table with no points for three or more loans.
recent_activity_component_none_for_many(current_year_loans) ==
    IF current_year_loans = 0 THEN 20
    ELSE IF current_year_loans = 1 THEN 15
    ELSE IF current_year_loans = 2 THEN 10
    ELSE 0

recent_activity_component(current_year_loans) ==
    IF current_year_loans = 0 THEN 20
    ELSE IF current_year_loans = 1 THEN 15
    ELSE IF current_year_loans = 2 THEN 10
    ELSE 5

\* The utilization bands with the boundary values in the lower-scoring band.
utilization_component_strict(total_current_loan_amount, approved_limit) ==
    IF approved_limit > 0
    THEN IF 10 * total_current_loan_amount < 3 * approved_limit THEN 20
         ELSE IF 10 * total_current_loan_amount < 5 * approved_limit THEN 15
         ELSE IF 10 * total_current_loan_amount < 7 * approved_limit THEN 10
         ELSE 5
    ELSE 0

utilization_component(total_current_loan_amount, approved_limit) ==
    IF approved_limit > 0
    THEN IF 10 * total_current_loan_amount <= 3 * approved_limit THEN 20
         ELSE IF 10 * total_current_loan_amount <= 5 * approved_limit THEN 15
         ELSE IF 10 * total_current_loan_amount <= 7 * approved_limit THEN 10
         ELSE 5
    ELSE 0

clamp_score_unclamped(score) == score

clamp_score(score) == Min(Max(score, 0), 100)

exceeds_limit_never(total_current_loan_amount, approved_limit) == FALSE

\* The critical rule triggered only above twice the limit.
exceeds_limit_at_double(total_current_loan_amount, approved_limit) ==
    total_current_loan_amount > 2 * approved_limit

exceeds_limit(total_current_loan_amount, approved_limit) ==
    total_current_loan_amount > approved_limit

\* calculate_credit_score from the critical rule on: the customer has loans.
score_with_history(customer_id) ==
    LET rows == all_loans(customer_id)
        approved_limit == customers[customer_id].approved_limit
        total_current_loan_amount == Sum(current_loans(customer_id), "loan_amount")
        current_year == date_year(today)
        current_year_loans ==
            Cardinality({l \in rows : \/ date_year(l.start_date) = current_year
                                      \/ date_year(l.end_date) = current_year})
    IN IF exceeds_limit(total_current_loan_amount, approved_limit) THEN 0
       ELSE clamp_score(
                on_time_component(Sum(rows, "tenure"), Sum(rows, "emis_paid_on_time"))
                + loan_count_component(Cardinality(rows))
                + recent_activity_component(current_year_loans)
                + utilization_component(total_current_loan_amount, approved_limit))

calculate_credit_score_no_default(customer_id) == score_with_history(customer_id)

calculate_credit_score(customer_id) ==
    IF all_loans(customer_id) = {} THEN 50 ELSE score_with_history(customer_id)

\* ---------------------------------------------------- the EMI calculator
\* r = interest_rate / 12 / 100 is the fraction m / d in lowest terms, and
\* EMI = P * r * (1 + r)^n / ((1 + r)^n - 1)
\*     = P * m * (d + m)^n / (d * ((d + m)^n - d^n)).
\* EMI = P * r * (1 + r)^n, the divisor (1 + r)^n - 1 left out.
calculate_monthly_installment_no_divisor(loan_amount, interest_rate, tenure) ==
    IF tenure <= 0 THEN Frac(0, 1)
    ELSE LET g == GCD(interest_rate, 1200)
             m == interest_rate \div g
             d == 1200 \div g
         IN IF m = 0 THEN Frac(loan_amount, tenure)
            ELSE Frac(quantize(loan_amount * m * Pow(d + m, tenure),
                               d * Pow(d, tenure)), 1)

\* A tenure below one month taken as one month.
calculate_monthly_installment_min_tenure(loan_amount, interest_rate, tenure) ==
    LET n == Max(tenure, 1)
        g == GCD(interest_rate, 1200)
        m == interest_rate \div g
        d == 1200 \div g
    IN IF m = 0 THEN Frac(loan_amount, n)
       ELSE LET power == Pow(d + m, n)
            IN Frac(quantize(loan_amount * m * power, d * (power - Pow(d, n))), 1)

\* The zero-rate quotient P / n quantized like the compound-interest value.
calculate_monthly_installment_zero_rate_rounded(loan_amount, interest_rate, tenure) ==
    IF tenure <= 0 THEN Frac(0, 1)
    ELSE LET g == GCD(interest_rate, 1200)
             m == interest_rate \div g
             d == 1200 \div g
         IN IF m = 0 THEN Frac(quantize(loan_amount, tenure), 1)
            ELSE LET power == Pow(d + m, tenure)
                 IN Frac(quantize(loan_amount * m * power,
                                  d * (power - Pow(d, tenure))), 1)

calculate_monthly_installment(loan_amount, interest_rate, tenure) ==
    IF tenure <= 0 THEN Frac(0, 1)
    ELSE LET g == GCD(interest_rate, 1200)
             m == interest_rate \div g
             d == 1200 \div g
         IN IF m = 0 THEN Frac(loan_amount, tenure)
            ELSE LET power == Pow(d + m, tenure)
                 IN Frac(quantize(loan_amount * m * power,
                                  d * (power - Pow(d, tenure))), 1)

\* --------------------------------------------------------- the decider
\* check_loan_eligibility without the try / except around the customer lookup.
customer_not_found_result_raised(interest_rate) ==
    [raised |-> "Customer.DoesNotExist"]

\* The not-found result without the requested rate.
customer_not_found_result_without_rate(interest_rate) ==
    [approval |-> FALSE,
     corrected_interest_rate |-> interest_rate,
     monthly_installment |-> Frac(0, 1),
     message |-> "Customer not found"]

customer_not_found_result(interest_rate) ==
    [approval |-> FALSE,
     interest_rate |-> interest_rate,
     corrected_interest_rate |-> interest_rate,
     monthly_installment |-> Frac(0, 1),
     message |-> "Customer not found"]

\* total_current_emi + monthly_installment > monthly_salary * Decimal('0.5')
emi_rule_whole_salary(total_current_emi, monthly_installment, monthly_salary) ==
    total_current_emi * monthly_installment.den + monthly_installment.num
        > monthly_salary * monthly_installment.den

emi_rule(total_current_emi, monthly_installment, monthly_salary) ==
    2 * (total_current_emi * monthly_installment.den + monthly_installment.num)
        > monthly_salary * monthly_installment.den

\* score_decision with the lowest band starting at 30 instead of 10.
score_decision_reject_30(credit_score, interest_rate) ==
    IF credit_score > 50
    THEN [approval |-> TRUE, corrected_interest_rate |-> interest_rate, message |-> ""]
    ELSE IF 30 < credit_score /\ credit_score <= 50
    THEN [approval |-> TRUE,
          corrected_interest_rate |-> IF interest_rate >= 12 THEN interest_rate ELSE 12,
          message |-> ""]
    ELSE [approval |-> FALSE, corrected_interest_rate |-> interest_rate,
          message |-> "Credit score too low for loan approval"]

\* score_decision with the band limits 50 and 30 themselves in the higher band.
score_decision_inclusive(credit_score, interest_rate) ==
    IF credit_score >= 50
    THEN [approval |-> TRUE, corrected_interest_rate |-> interest_rate, message |-> ""]
    ELSE IF 30 <= credit_score /\ credit_score < 50
    THEN [approval |-> TRUE,
          corrected_interest_rate |-> IF interest_rate >= 12 THEN interest_rate ELSE 12,
          message |-> ""]
    ELSE IF 10 < credit_score /\ credit_score < 30
    THEN [approval |-> TRUE,
          corrected_interest_rate |-> IF interest_rate >= 16 THEN interest_rate ELSE 16,
          message |-> ""]
    ELSE [approval |-> FALSE, corrected_interest_rate |-> interest_rate,
          message |-> "Credit score too low for loan approval"]

\* The score bands with the message of the last branch left empty.
score_decision_silent(credit_score, interest_rate) ==
    IF credit_score > 50
    THEN [approval |-> TRUE, corrected_interest_rate |-> interest_rate, message |-> ""]
    ELSE IF 30 < credit_score /\ credit_score <= 50
    THEN [approval |-> TRUE,
          corrected_interest_rate |-> IF interest_rate >= 12 THEN interest_rate ELSE 12,
          message |-> ""]
    ELSE IF 10 < credit_score /\ credit_score <= 30
    THEN [approval |-> TRUE,
          corrected_interest_rate |-> IF interest_rate >= 16 THEN interest_rate ELSE 16,
          message |-> ""]
    ELSE [approval |-> FALSE, corrected_interest_rate |-> interest_rate,
          message |-> ""]

score_decision(credit_score, interest_rate) ==
    IF credit_score > 50
    THEN [approval |-> TRUE, corrected_interest_rate |-> interest_rate, message |-> ""]
    ELSE IF 30 < credit_score /\ credit_score <= 50
    THEN [approval |-> TRUE,
          corrected_interest_rate |-> IF interest_rate >= 12 THEN interest_rate ELSE 12,
          message |-> ""]
    ELSE IF 10 < credit_score /\ credit_score <= 30
    THEN [approval |-> TRUE,
          corrected_interest_rate |-> IF interest_rate >= 16 THEN interest_rate ELSE 16,
          message |-> ""]
    ELSE [approval |-> FALSE, corrected_interest_rate |-> interest_rate,
          message |-> "Credit score too low for loan approval"]

recalculated_installment_kept(loan_amount, interest_rate, corrected_interest_rate, tenure, monthly_installment) ==
    monthly_installment

recalculated_installment(loan_amount, interest_rate, corrected_interest_rate, tenure, monthly_installment) ==
    IF corrected_interest_rate # interest_rate
    THEN calculate_monthly_installment(loan_amount, corrected_interest_rate, tenure)
    ELSE monthly_installment

check_loan_eligibility(customer_id, loan_amount, interest_rate, tenure) ==
    IF customer_id \notin DOMAIN customers
    THEN customer_not_found_result(interest_rate)
    ELSE LET customer == customers[customer_id]
             credit_score == calculate_credit_score(customer_id)
             monthly_installment ==
                 calculate_monthly_installment(loan_amount, interest_rate, tenure)
             total_current_emi == Sum(current_loans(customer_id), "monthly_repayment")
         IN IF emi_rule(total_current_emi, monthly_installment, customer.monthly_salary)
            THEN [approval |-> FALSE,
                  interest_rate |-> interest_rate,
                  corrected_interest_rate |-> interest_rate,
                  monthly_installment |-> monthly_installment,
                  message |-> "Total EMI exceeds 50% of monthly salary"]
            ELSE LET decision == score_decision(credit_score, interest_rate)
                 IN [approval |-> decision.approval,
                     interest_rate |-> interest_rate,
                     corrected_interest_rate |-> decision.corrected_interest_rate,
                     monthly_installment |->
                         recalculated_installment(loan_amount, interest_rate,
                             decision.corrected_interest_rate, tenure,
                             monthly_installment),
                     message |-> decision.message,
                     credit_score |-> credit_score]

\* --------------------------------------------------------- the endpoints
None == "None"

\* DecimalField(max_digits=12, decimal_places=2) of the response serializers,
\* fed float(monthly_installment): a value with more than two decimal places
\* is not valid.  (Twelve digits are never exceeded by the amounts used here.)
installment_is_valid(monthly_installment) == monthly_installment.den = 1

check_eligibility(req) ==
    IF req.customer_id \notin DOMAIN customers
    THEN [status |-> 404, error |-> "Customer not found"]
    ELSE LET eligibility_result ==
                 check_loan_eligibility(req.customer_id, req.loan_amount,
                                        req.interest_rate, req.tenure)
         IN IF installment_is_valid(eligibility_result.monthly_installment)
            THEN [status |-> 200,
                  customer_id |-> req.customer_id,
                  approval |-> eligibility_result.approval,
                  interest_rate |-> eligibility_result.interest_rate,
                  corrected_interest_rate |->
                      eligibility_result.corrected_interest_rate,
                  tenure |-> req.tenure,
                  monthly_installment |-> eligibility_result.monthly_installment]
            ELSE [status |-> 400, error |-> "monthly_installment"]

\* create_loan's response to a request that was not approved.
rejected_response(req, eligibility_result) ==
    IF installment_is_valid(eligibility_result.monthly_installment)
    THEN [status |-> 201,
          loan_id |-> None,
          customer_id |-> req.customer_id,
          loan_approved |-> FALSE,
          message |-> eligibility_result.message,
          monthly_installment |-> eligibility_result.monthly_installment]
    ELSE [status |-> 400, error |-> "monthly_installment"]

\* create_loan's response after the loan was stored.
approved_response(req, loan_id, monthly_installment) ==
    IF installment_is_valid(monthly_installment)
    THEN [status |-> 201,
          loan_id |-> loan_id,
          customer_id |-> req.customer_id,
          loan_approved |-> TRUE,
          message |-> "Loan approved successfully",
          monthly_installment |-> monthly_installment]
    ELSE [status |-> 400, error |-> "monthly_installment"]

\* Loan.objects.order_by('-loan_id').first(), then + 1, or 1 for an empty table.
next_loan_id ==
    IF loans = {} THEN 1
    ELSE (CHOOSE l \in loans : \A k \in loans : k.loan_id <= l.loan_id).loan_id + 1

\* The values a two-place DecimalField column may hold after saving a Decimal:
\* the nearest hundredth; a value exactly halfway is rounded by the database
\* backend, half-even or half-up.
stored_decimal(value) ==
    LET q == value.num \div value.den
        rem == value.num % value.den
    IN IF 2 * rem < value.den THEN {q}
       ELSE IF 2 * rem > value.den THEN {q + 1}
       ELSE {q + 1, quantize(value.num, value.den)}

\* The row Loan.objects.create(...) of create_loan inserts.
new_loan(loan_id, req, eligibility_result, monthly_repayment) ==
    [loan_id |-> loan_id,
     customer |-> req.customer_id,
     loan_amount |-> req.loan_amount,
     tenure |-> req.tenure,
     interest_rate |-> eligibility_result.corrected_interest_rate,
     monthly_repayment |-> monthly_repayment,
     emis_paid_on_time |-> 0,
     start_date |-> today,
     end_date |-> today + req.tenure]

\* Requests naming a customer that is not in the table.
UnknownCustomerRequests ==
    [customer_id : CustomerIds \ RegisteredIds, loan_amount : {101},
     interest_rate : {12}, tenure : Tenures]

\* The arguments check_loan_eligibility is applied to.
Requests ==
    [customer_id : RegisteredIds, loan_amount : Amounts,
     interest_rate : Rates, tenure : Tenures]
    \cup UnknownCustomerRequests

\* The requests sent to the endpoints.
EndpointRequests ==
    [customer_id : RegisteredIds, loan_amount : Amounts,
     interest_rate : EndpointRates, tenure : Tenures]
    \cup UnknownCustomerRequests

decide(req) ==
    check_loan_eligibility(req.customer_id, req.loan_amount,
                           req.interest_rate, req.tenure)

\* ------------------------------------------------------------ the state
HistoryTemplates ==
    [loan_amount : HistoryAmounts, tenure : HistoryTenures,
     monthly_repayment : HistoryRepayments,
     emis_paid_on_time : HistoryOnTime, period : HistoryPeriods]

HistoryLoan(loan_id, customer_id, t, t0) ==
    [loan_id |-> loan_id,
     customer |-> customer_id,
     loan_amount |-> t.loan_amount,
     tenure |-> t.tenure,
     interest_rate |-> 12,
     monthly_repayment |-> t.monthly_repayment,
     emis_paid_on_time |-> t.emis_paid_on_time,
     start_date |-> t0 + t.period[1],
     end_date |-> t0 + t.period[2]]

\* The Loan table as the data ingestion leaves it: any loans of registered
\* customers, loan_id being unique.
Histories(t0) ==
    UNION {{{HistoryLoan(i, c[i], f[i], t0) : i \in ids} :
                f \in [ids -> HistoryTemplates], c \in [ids -> RegisteredIds]} :
           ids \in {{i \in HistoryLoanIds : i <= n} : n \in {0} \cup HistoryLoanIds}}

Idle == [pc |-> "idle"]

\* The system as the endpoints and direct callers of the scorer and the decider
\* see it: a registered customer with at most one ingested loan.
Init ==
    /\ today \in StartMonths
    /\ customers \in [RegisteredIds -> [monthly_salary : Salaries,
                                        approved_limit : Limits,
                                        current_debt : {0}]]
    /\ loans \in {h \in Histories(today) : Cardinality(h) <= 1}
    /\ last = [op |-> "none"]
    /\ inflight = [w \in Workers |-> Idle]

\* A direct call of the scorer.
Score(customer_id) ==
    /\ last' = [op |-> "calculate_credit_score", customer_id |-> customer_id,
                score |-> calculate_credit_score(customer_id)]
    /\ UNCHANGED <<customers, loans, today, inflight>>

\* A direct call of the decider.
Decide(req) ==
    /\ last' = [op |-> "check_loan_eligibility", req |-> req, elig |-> decide(req)]
    /\ UNCHANGED <<customers, loans, today, inflight>>

\* check_eligibility persisting the loan it approves, as create_loan does.
CheckEligibility_storing(req) ==
    /\ last' = [op |-> "check_eligibility", req |-> req,
                resp |-> check_eligibility(req)]
    /\ loans' = IF /\ req.customer_id \in DOMAIN customers
                   /\ decide(req).approval
                   /\ Cardinality(loans) < MaxLoans
                THEN loans \cup
                     {new_loan(next_loan_id, req, decide(req),
                               decide(req).monthly_installment.num
                                   \div decide(req).monthly_installment.den)}
                ELSE loans
    /\ UNCHANGED <<customers, today, inflight>>

\* POST /check-eligibility
CheckEligibility(req) ==
    /\ last' = [op |-> "check_eligibility", req |-> req,
                resp |-> check_eligibility(req)]
    /\ UNCHANGED <<customers, loans, today, inflight>>

\* POST /create-loan, served without interruption.
CreateLoan(req) ==
    LET eligibility_result == decide(req)
    IN IF ~eligibility_result.approval
       THEN /\ last' = [op |-> "create_loan", req |-> req,
                        elig |-> eligibility_result,
                        resp |-> rejected_response(req, eligibility_result)]
            /\ UNCHANGED <<customers, loans, today, inflight>>
       ELSE /\ Cardinality(loans) < MaxLoans
            /\ \E monthly_repayment \in
                     stored_decimal(eligibility_result.monthly_installment) :
                 loans' = loans \cup
                     {new_loan(next_loan_id, req, eligibility_result,
                               monthly_repayment)}
            /\ last' = [op |-> "create_loan", req |-> req,
                        elig |-> eligibility_result,
                        resp |-> approved_response(req, next_loan_id,
                                     eligibility_result.monthly_installment)]
            /\ UNCHANGED <<customers, today, inflight>>

Next ==
    \/ \E customer_id \in DOMAIN customers : Score(customer_id)
    \/ \E req \in EndpointRequests : Decide(req)
    \/ \E req \in EndpointRequests : CheckEligibility(req)
    \/ \E req \in EndpointRequests : CreateLoan(req)

Spec == Init /\ [][Next]_vars

\* ------------------------------------------- the scoring engine on its own
\* calculate_credit_score and check_loan_eligibility applied to every customer
\* snapshot and loan history of the input sets.
InitEngine ==
    /\ today \in StartMonths
    /\ customers \in [RegisteredIds -> [monthly_salary : Salaries,
                                        approved_limit : Limits,
                                        current_debt : {0}]]
    /\ loans \in Histories(today)
    /\ last = [op |-> "none"]
    /\ inflight = [w \in Workers |-> Idle]

\* A month passes; the result of the last call has been consumed.
Tick ==
    /\ today < MaxToday
    /\ today' = today + 1
    /\ last' = [op |-> "none"]
    /\ UNCHANGED <<customers, loans, inflight>>

NextEngine ==
    \/ \E customer_id \in DOMAIN customers : Score(customer_id)
    \/ \E req \in Requests : Decide(req)
    \/ Tick

SpecEngine == InitEngine /\ [][NextEngine]_vars

\* ------------------------------------- create_loan served concurrently
\* Each worker serves create_loan one database statement at a time: the
\* eligibility check, then inside transaction.atomic() the read of the last
\* loan and the insert.  The block takes no lock, so the statements of two
\* workers interleave.
ConcurrentRequests ==
    {req \in EndpointRequests : req.loan_amount = 101 /\ req.tenure = 1}

InitConcurrent ==
    /\ today \in StartMonths
    /\ customers \in [RegisteredIds -> [monthly_salary : Salaries,
                                        approved_limit : Limits,
                                        current_debt : {0}]]
    /\ loans = {}
    /\ last = [op |-> "none"]
    /\ inflight = [w \in Workers |-> Idle]

Busy == {w \in Workers : inflight[w].pc # "idle"}

\* views.py 128-156: the decision; a rejected request is answered at once.
BeginCreateLoan(w, req) ==
    /\ inflight[w].pc = "idle"
    /\ LET eligibility_result == decide(req)
       IN IF ~eligibility_result.approval
          THEN /\ last' = [op |-> "create_loan", req |-> req,
                           elig |-> eligibility_result,
                           resp |-> rejected_response(req, eligibility_result)]
               /\ UNCHANGED <<customers, loans, today, inflight>>
          ELSE /\ Cardinality(loans) + Cardinality(Busy) < MaxLoans
               /\ inflight' = [inflight EXCEPT ![w] =
                                  [pc |-> "txn", req |-> req,
                                   elig |-> eligibility_result]]
               /\ UNCHANGED <<customers, loans, today, last>>

\* views.py 168-169: last_loan and next_loan_id.
ReadLastLoan(w) ==
    /\ inflight[w].pc = "txn"
    /\ inflight' = [inflight EXCEPT ![w] =
                       [pc |-> "insert", req |-> inflight[w].req,
                        elig |-> inflight[w].elig,
                        next_loan_id |-> next_loan_id]]
    /\ UNCHANGED <<customers, loans, today, last>>

\* views.py 171-195: the insert; the primary key refuses a loan_id that is
\* already in the table and the request ends with an IntegrityError.
InsertLoan(w) ==
    /\ inflight[w].pc = "insert"
    /\ LET req == inflight[w].req
           eligibility_result == inflight[w].elig
           loan_id == inflight[w].next_loan_id
       IN IF \E l \in loans : l.loan_id = loan_id
          THEN /\ last' = [op |-> "create_loan", req |-> req,
                           elig |-> eligibility_result,
                           resp |-> [status |-> 500, error |-> "IntegrityError"]]
               /\ UNCHANGED loans
          ELSE /\ \E monthly_repayment \in
                        stored_decimal(eligibility_result.monthly_installment) :
                    loans' = loans \cup
                        {new_loan(loan_id, req, eligibility_result,
                                  monthly_repayment)}
               /\ last' = [op |-> "create_loan", req |-> req,
                           elig |-> eligibility_result,
                           resp |-> approved_response(req, loan_id,
                                        eligibility_result.monthly_installment)]
    /\ inflight' = [inflight EXCEPT ![w] = Idle]
    /\ UNCHANGED <<customers, today>>

NextConcurrent ==
    \/ \E w \in Workers, req \in ConcurrentRequests : BeginCreateLoan(w, req)
    \/ \E w \in Workers : ReadLastLoan(w)
    \/ \E w \in Workers : InsertLoan(w)

SpecConcurrent == InitConcurrent /\ [][NextConcurrent]_vars

\* ------------------------------------------- the EMI calculator on its own
InitCalculator ==
    /\ today \in StartMonths
    /\ customers \in [RegisteredIds -> [monthly_salary : Salaries,
                                        approved_limit : {0},
                                        current_debt : {0}]]
    /\ loans = {}
    /\ last = [op |-> "none"]
    /\ inflight = [w \in Workers |-> Idle]

\* A direct call of calculate_monthly_installment.
Installment(loan_amount, interest_rate, tenure) ==
    /\ last' = [op |-> "calculate_monthly_installment",
                loan_amount |-> loan_amount,
                interest_rate |-> interest_rate,
                tenure |-> tenure,
                installment |-> calculate_monthly_installment(loan_amount,
                                    interest_rate, tenure)]
    /\ UNCHANGED <<customers, loans, today, inflight>>

NextCalculator ==
    \E loan_amount \in CalcAmounts, interest_rate \in CalcRates,
       tenure \in CalcTenures :
        Installment(loan_amount, interest_rate, tenure)

SpecCalculator == InitCalculator /\ [][NextCalculator]_vars

\* ------------------------------------ the scorer on longer loan histories
ScorerHistories(t0) ==
    UNION {{{HistoryLoan(i, c, f[i], t0) : i \in 1..n} :
                f \in [1..n -> ScorerTemplates], c \in RegisteredIds} :
           n \in 0..MaxHistory}

ScorerRequests ==
    [customer_id : RegisteredIds, loan_amount : {101},
     interest_rate : ScorerRates, tenure : {1}]

InitScorer ==
    /\ today \in StartMonths
    /\ customers \in [RegisteredIds -> [monthly_salary : Salaries,
                                        approved_limit : Limits,
                                        current_debt : {0}]]
    /\ loans \in ScorerHistories(today)
    /\ last = [op |-> "none"]
    /\ inflight = [w \in Workers |-> Idle]

NextScorer ==
    \/ \E customer_id \in DOMAIN customers : Score(customer_id)
    \/ \E req \in ScorerRequests : Decide(req)

SpecScorer == InitScorer /\ [][NextScorer]_vars

\* ------------------------------------------------ registration on its own
\* One lakh, 100000.00, in hundredths.
lakh == 10000000

\* CustomerRegistrationSerializer: age at least 18, monthly_income at least 0
\* (names and phone number are passed on unchanged and left out).
registration_is_valid(req) == req.age >= 18 /\ req.monthly_income >= 0

\* The limit rounded down to a lakh.
approved_limit_floor(monthly_income) == ((monthly_income * 36) \div lakh) * lakh

\* (monthly_income * 36 / lakh).quantize(Decimal('1')) * lakh
approved_limit_for(monthly_income) == quantize(monthly_income * 36, lakh) * lakh

\* Customer.objects.order_by('-customer_id').first(), then + 1, or 1.
next_id ==
    IF DOMAIN customers = {} THEN 1
    ELSE (CHOOSE i \in DOMAIN customers : \A k \in DOMAIN customers : k <= i) + 1

RegisterRequests == [monthly_income : RegisterIncomes, age : RegisterAges]

InitRegister ==
    /\ today \in StartMonths
    /\ customers \in [RegisteredIds -> [monthly_salary : Salaries,
                                        approved_limit : Limits,
                                        current_debt : {0}]]
    /\ loans = {}
    /\ last = [op |-> "none"]
    /\ inflight = [w \in Workers |-> Idle]

\* POST /register
RegisterCustomer(req) ==
    IF ~registration_is_valid(req)
    THEN /\ last' = [op |-> "register_customer", req |-> req,
                     resp |-> [status |-> 400, error |-> "invalid"]]
         /\ UNCHANGED <<customers, loans, today, inflight>>
    ELSE /\ Cardinality(DOMAIN customers) < MaxCustomers
         /\ LET customer == [monthly_salary |-> req.monthly_income,
                             approved_limit |-> approved_limit_for(req.monthly_income),
                             current_debt |-> 0]
            IN /\ customers' = [i \in DOMAIN customers \cup {next_id} |->
                                   IF i = next_id THEN customer ELSE customers[i]]
               /\ last' = [op |-> "register_customer", req |-> req,
                           resp |-> [status |-> 201,
                                     customer_id |-> next_id,
                                     monthly_income |-> customer.monthly_salary,
                                     approved_limit |-> customer.approved_limit]]
         /\ UNCHANGED <<loans, today, inflight>>

NextRegister == \E req \in RegisterRequests : RegisterCustomer(req)

SpecRegister == InitRegister /\ [][NextRegister]_vars

\* ------------------------------------------------------------ the claims
Scored == last.op = "calculate_credit_score"
Decided == last.op = "check_loan_eligibility"

\* The installment of the request at the requested rate.
RequestedInstallment(req) ==
    calculate_monthly_installment(req.loan_amount, req.interest_rate, req.tenure)

\* (sum of monthly_repayment over the active loans) + installment
\*     > 0.5 * monthly_salary
OverHalfSalary(req) ==
    LET installment == RequestedInstallment(req)
        total == Sum({l \in loans : l.customer = req.customer_id
                                    /\ l.end_date >= today}, "monthly_repayment")
    IN 2 * (total * installment.den + installment.num)
           > customers[req.customer_id].monthly_salary * installment.den

ActiveLoanTotal(customer_id) ==
    Sum({l \in loans : l.customer = customer_id /\ l.end_date >= today},
        "loan_amount")

\* C1: for every customer and every stored loan history, calculate_credit_score
\* returns an integer in the range 0..100.
C1_ScoreInRange ==
    /\ Scored => last.score \in 0..100
    /\ \A customer_id \in DOMAIN customers :
           calculate_credit_score(customer_id) \in 0..100

\* C1 witness: a score was returned for a history with more on-time
\* installments than installments, whose components add up to more than 100.
C1_Witness ==
    /\ Scored
    /\ LET rows == all_loans(last.customer_id)
       IN /\ Sum(rows, "emis_paid_on_time") > Sum(rows, "tenure")
          /\ Sum(rows, "tenure") > 0
    /\ ActiveLoanTotal(last.customer_id)
           <= customers[last.customer_id].approved_limit
    /\ last.score = 100

\* C2: whenever the loan_amount total of the customer's active loans is
\* strictly greater than approved_limit, calculate_credit_score returns 0.
C2_CriticalRule ==
    Scored =>
        (ActiveLoanTotal(last.customer_id)
             > customers[last.customer_id].approved_limit
         => last.score = 0)

\* C2 witness: score 0 was returned for a customer over the limit whose loans
\* were all paid on time.
C2_Witness ==
    /\ Scored
    /\ ActiveLoanTotal(last.customer_id)
           > customers[last.customer_id].approved_limit
    /\ customers[last.customer_id].approved_limit > 0
    /\ LET rows == all_loans(last.customer_id)
       IN Sum(rows, "emis_paid_on_time") >= Sum(rows, "tenure")
    /\ last.score = 0

\* C3: for an existing customer, whenever the active loans' repayments plus
\* the installment at the requested rate exceed half the salary, the decision
\* is approval = FALSE with message 'Total EMI exceeds 50% of monthly salary',
\* the requested rate as corrected rate and the computed installment, whatever
\* the credit score.
C3_EmiRule ==
    (Decided /\ last.req.customer_id \in DOMAIN customers /\ OverHalfSalary(last.req))
    => /\ last.elig.approval = FALSE
       /\ last.elig.message = "Total EMI exceeds 50% of monthly salary"
       /\ last.elig.corrected_interest_rate = last.req.interest_rate
       /\ last.elig.monthly_installment = RequestedInstallment(last.req)

\* C3 witness: such a rejection for a customer whose score is above 50.
C3_Witness ==
    /\ Decided
    /\ last.req.customer_id \in DOMAIN customers
    /\ OverHalfSalary(last.req)
    /\ calculate_credit_score(last.req.customer_id) > 50
    /\ last.elig.approval = FALSE

\* C4: for an existing customer whose request passes the EMI rule, the
\* request is approved if and only if the credit score is above 10; a score
\* of 10 or less gives approval = FALSE with message 'Credit score too low
\* for loan approval'.
C4_ApprovedIffScoreAbove10 ==
    (Decided /\ last.req.customer_id \in DOMAIN customers /\ ~OverHalfSalary(last.req))
    => LET credit_score == calculate_credit_score(last.req.customer_id)
       IN /\ last.elig.approval <=> credit_score > 10
          /\ credit_score <= 10 =>
                 /\ last.elig.approval = FALSE
                 /\ last.elig.message = "Credit score too low for loan approval"

\* C4 witness: a request that passes the EMI rule and is rejected for its score.
C4_Witness ==
    /\ Decided
    /\ last.req.customer_id \in DOMAIN customers
    /\ ~OverHalfSalary(last.req)
    /\ calculate_credit_score(last.req.customer_id) <= 10
    /\ last.elig.approval = FALSE
    /\ last.elig.message = "Credit score too low for loan approval"

\* The corrected rate of the score band, as C5 states it.
BandRate(credit_score, interest_rate) ==
    IF credit_score > 50 THEN interest_rate
    ELSE IF credit_score > 30 THEN (IF interest_rate < 12 THEN 12 ELSE interest_rate)
    ELSE IF credit_score > 10 THEN (IF interest_rate < 16 THEN 16 ELSE interest_rate)
    ELSE interest_rate

\* C5: in an approved decision the corrected rate is the requested rate for
\* score > 50, at least 12 for 30 < score <= 50 and at least 16 for
\* 10 < score <= 30; a score of exactly 50 (no loans) is in the 12 band and
\* a score of exactly 30 in the 16 band.
C5_CorrectedRateByBand ==
    (Decided /\ last.elig.approval)
    => LET credit_score == calculate_credit_score(last.req.customer_id)
       IN /\ last.elig.corrected_interest_rate
                 = BandRate(credit_score, last.req.interest_rate)
          /\ (all_loans(last.req.customer_id) = {} /\ last.req.interest_rate < 12)
                 => last.elig.corrected_interest_rate = 12
          /\ (credit_score = 30 /\ last.req.interest_rate < 16)
                 => last.elig.corrected_interest_rate = 16

\* C5 witness: an approval at a score of exactly 30 whose rate was raised to 16.
C5_Witness ==
    /\ Decided
    /\ last.elig.approval
    /\ calculate_credit_score(last.req.customer_id) = 30
    /\ last.req.interest_rate = 12
    /\ last.elig.corrected_interest_rate = 16

\* The installment the result must carry, as C6 states it.
InstallmentAsClaimed(req, elig) ==
    IF elig.corrected_interest_rate # req.interest_rate
    THEN elig.monthly_installment
             = calculate_monthly_installment(req.loan_amount,
                   elig.corrected_interest_rate, req.tenure)
    ELSE elig.monthly_installment = RequestedInstallment(req)

\* C6 as stated: in every result of check_loan_eligibility the installment is
\* the one of the corrected rate when the rate was corrected and the one of
\* the requested rate when it was not.
C6_Original == Decided => InstallmentAsClaimed(last.req, last.elig)

\* C6 amended: the same, for an existing customer (the result for an unknown
\* customer carries installment 0.00).
C6_InstallmentOfFinalRate ==
    (Decided /\ last.req.customer_id \in DOMAIN customers)
    => InstallmentAsClaimed(last.req, last.elig)

\* C6 witness: a corrected rate whose installment differs from the one of the
\* requested rate.
C6_Witness ==
    /\ Decided
    /\ last.req.customer_id \in DOMAIN customers
    /\ last.elig.corrected_interest_rate # last.req.interest_rate
    /\ last.elig.monthly_installment # RequestedInstallment(last.req)
    /\ InstallmentAsClaimed(last.req, last.elig)

\* The response C7 requires for a rejected request.
RejectionResponse(resp) ==
    /\ DOMAIN resp = {"status", "loan_id", "customer_id", "loan_approved",
                      "message", "monthly_installment"}
    /\ resp.loan_id = None
    /\ resp.loan_approved = FALSE
    /\ resp.message # ""

\* C7: create_loan stores a loan only when the decision is approved; on every
\* rejected request the stored loans are unchanged and the response carries
\* loan_id = null, loan_approved = false and a message.
C7_RejectedRequest ==
    [][(last'.op = "create_loan" /\ ~last'.elig.approval)
       => (loans' = loans /\ RejectionResponse(last'.resp))]_vars

\* C8: concurrent create_loan requests never hold the same assigned loan
\* identifier.
C8_NoSharedLoanId ==
    \A v, w \in Workers :
        (v # w /\ inflight[v].pc = "insert" /\ inflight[w].pc = "insert")
        => inflight[v].next_loan_id # inflight[w].next_loan_id

\* C9: for a customer id that matches no stored customer check_loan_eligibility
\* returns (and does not raise) approval = FALSE, the requested rate as
\* corrected rate, installment 0.00 and message 'Customer not found'.
C9_CustomerNotFound ==
    (Decided /\ last.req.customer_id \notin DOMAIN customers)
    => /\ "raised" \notin DOMAIN last.elig
       /\ {"approval", "corrected_interest_rate", "monthly_installment", "message"}
              \subseteq DOMAIN last.elig
       /\ last.elig.approval = FALSE
       /\ last.elig.corrected_interest_rate = last.req.interest_rate
       /\ last.elig.monthly_installment = [num |-> 0, den |-> 1]
       /\ last.elig.message = "Customer not found"

\* C9 witness: check_loan_eligibility answered a request for an unknown
\* customer whose installment would not be 0.
C9_Witness ==
    /\ Decided
    /\ last.req.customer_id \notin DOMAIN customers
    /\ RequestedInstallment(last.req).num > 0
    /\ last.elig.message = "Customer not found"

\* C10: a customer with no loan records gets credit score exactly 50.
C10_NewCustomerScore ==
    (Scored /\ {l \in loans : l.customer = last.customer_id} = {})
    => last.score = 50

\* C10 witness: a score was returned for a customer without loans.
C10_Witness ==
    /\ Scored
    /\ {l \in loans : l.customer = last.customer_id} = {}
    /\ last.score = 50

\* The row C11 requires an approved request to leave in the Loan table.
LoanAsClaimed(l, req, elig, day) ==
    /\ l.customer = req.customer_id
    /\ l.loan_amount = req.loan_amount
    /\ l.tenure = req.tenure
    /\ l.interest_rate = elig.corrected_interest_rate
    /\ Frac(l.monthly_repayment, 1) = elig.monthly_installment
    /\ l.start_date = day
    /\ l.end_date = day + req.tenure
    /\ l.emis_paid_on_time = 0

\* C11: when create_loan approves a request it stores exactly one new loan for
\* that customer with the requested principal and tenure, the corrected rate of
\* the decision, monthly repayment equal to the final installment of the
\* decision, start date today, end date today plus tenure months and on-time
\* installment count 0.
C11_ApprovedLoanStored ==
    [][(last'.op = "create_loan" /\ last'.elig.approval)
       => \E l \in loans' :
              /\ l \notin loans
              /\ loans' = loans \cup {l}
              /\ LoanAsClaimed(l, last'.req, last'.elig, today)]_vars

\* C13: calculate_credit_score, check_loan_eligibility and the check_eligibility
\* endpoint leave every customer record and every loan record unchanged on
\* every path (approved, rejected, customer not found).
C13_ReadOnly ==
    [][(last'.op \in {"calculate_credit_score", "check_loan_eligibility",
                      "check_eligibility"})
       => (customers' = customers /\ loans' = loans)]_vars

\* C13 witness: the check_eligibility endpoint answered a request it approves,
\* for a customer who has a loan on record.
C13_Witness ==
    /\ last.op = "check_eligibility"
    /\ last.resp.status = 200
    /\ last.resp.approval
    /\ \E l \in loans : l.customer = last.req.customer_id

\* The keys C14 requires of every result.
ResultKeys ==
    {"approval", "interest_rate", "corrected_interest_rate",
     "monthly_installment", "message", "credit_score"}

\* C14 as stated: every result returned by check_loan_eligibility, on every
\* path including the customer-not-found and EMI-rule rejections, carries
\* approval flag, requested rate, corrected rate, installment, message and
\* credit score.
C14_Original == Decided => ResultKeys \subseteq DOMAIN last.elig

\* C14 amended: every result carries approval flag, requested rate, corrected
\* rate, installment and message; it carries the credit score exactly when the
\* customer exists and the request passes the EMI rule.
C14_ResultFields ==
    Decided
    => /\ ResultKeys \ {"credit_score"} \subseteq DOMAIN last.elig
       /\ last.elig.interest_rate = last.req.interest_rate
       /\ "credit_score" \in DOMAIN last.elig
              <=> /\ last.req.customer_id \in DOMAIN customers
                  /\ ~OverHalfSalary(last.req)

\* C14 witness: an EMI-rule rejection, whose result has no credit score, of a
\* customer who has one.
C14_Witness ==
    /\ Decided
    /\ last.req.customer_id \in DOMAIN customers
    /\ OverHalfSalary(last.req)
    /\ calculate_credit_score(last.req.customer_id) > 0
    /\ DOMAIN last.elig = ResultKeys \ {"credit_score"}

Calculated == last.op = "calculate_monthly_installment"

\* a < b for two fractions with positive denominators.
FracLess(a, b) == a.num * b.den < b.num * a.den

\* C15 as stated: for every principal, every annual rate > 0 and every pair of
\* tenures 0 < n1 < n2, the installment for n2 is strictly less than the
\* installment for n1.
C15_Original ==
    (Calculated /\ last.interest_rate > 0)
    => \A n1 \in CalcTenures :
           (0 < n1 /\ n1 < last.tenure)
           => FracLess(last.installment,
                       calculate_monthly_installment(last.loan_amount,
                           last.interest_rate, n1))

\* C15 amended: for every principal, every annual rate > 0 and every pair of
\* tenures 0 < n1 < n2, the installment for n2 is never greater than the
\* installment for n1.
C15_NeverGreater ==
    (Calculated /\ last.interest_rate > 0)
    => \A n1 \in CalcTenures :
           (0 < n1 /\ n1 < last.tenure)
           => ~FracLess(calculate_monthly_installment(last.loan_amount,
                            last.interest_rate, n1),
                        last.installment)

\* C15 witness: a positive principal whose installments over a shorter and a
\* longer tenure, at a positive rate, round to the same amount.
C15_Witness ==
    /\ Calculated
    /\ last.interest_rate > 0
    /\ last.loan_amount > 0
    /\ last.tenure > 1
    /\ last.installment =
           calculate_monthly_installment(last.loan_amount, last.interest_rate,
                                         last.tenure - 1)

\* P * r * (1 + r)^n / ((1 + r)^n - 1) for r = interest_rate / 12 / 100 = a / b:
\* the fraction P * a * (b + a)^n / (b * ((b + a)^n - b^n)), not reduced.
ExactInstallment(loan_amount, interest_rate, tenure) ==
    LET r == Frac(interest_rate, 1200)
        growth == Pow(r.den + r.num, tenure)
    IN [num |-> loan_amount * r.num * growth,
        den |-> r.den * (growth - Pow(r.den, tenure))]

\* Twice the distance of the whole number c from the fraction x, in units of
\* 1 / x.den.
TwiceDistance(c, x) ==
    IF c * x.den >= x.num THEN 2 * (c * x.den - x.num) ELSE 2 * (x.num - c * x.den)

\* C16 as stated: for a non-zero rate and tenure n >= 1 the installment is
\* P * r * (1+r)^n / ((1+r)^n - 1) rounded half-up to two decimal places: a
\* value exactly halfway between two cents rounds up.
C16_Original ==
    (Calculated /\ last.interest_rate # 0 /\ last.tenure >= 1)
    => LET x == ExactInstallment(last.loan_amount, last.interest_rate, last.tenure)
           c == last.installment.num
       IN /\ last.installment.den = 1
          /\ TwiceDistance(c, x) <= x.den
          /\ TwiceDistance(c, x) = x.den => c * x.den > x.num

\* C16 amended: the installment is that value rounded to the nearest cent, and
\* a value exactly halfway between two cents is rounded to the even cent.
C16_RoundedHalfEven ==
    (Calculated /\ last.interest_rate # 0 /\ last.tenure >= 1)
    => LET x == ExactInstallment(last.loan_amount, last.interest_rate, last.tenure)
           c == last.installment.num
       IN /\ last.installment.den = 1
          /\ TwiceDistance(c, x) <= x.den
          /\ TwiceDistance(c, x) = x.den => c % 2 = 0

\* C16 witness: an installment whose exact value lies halfway between two
\* cents and was rounded down.
C16_Witness ==
    /\ Calculated
    /\ last.interest_rate # 0
    /\ last.tenure >= 1
    /\ LET x == ExactInstallment(last.loan_amount, last.interest_rate, last.tenure)
       IN /\ TwiceDistance(last.installment.num, x) = x.den
          /\ last.installment.num * x.den < x.num

\* C17: for every tenure <= 0 (zero or negative) calculate_monthly_installment
\* returns 0.00 for any principal and rate, without dividing by the tenure.
C17_NoTenureNoInstallment ==
    (Calculated /\ last.tenure <= 0)
    => last.installment = [num |-> 0, den |-> 1]

\* C17 witness: 0.00 was returned for a positive principal at rate 0 and
\* tenure 0, where P / n would be a division by zero.
C17_Witness ==
    /\ Calculated
    /\ last.tenure = 0
    /\ last.interest_rate = 0
    /\ last.loan_amount > 0
    /\ last.installment.num = 0

C19_MessageIffRejected ==
    Decided => (last.elig.message = "" <=> last.elig.approval)

\* C19 witness: a rejection for a low score, with its message, of a request
\* that passes the EMI rule.
C19_Witness ==
    /\ Decided
    /\ last.req.customer_id \in DOMAIN customers
    /\ ~OverHalfSalary(last.req)
    /\ ~last.elig.approval
    /\ last.elig.message # ""

\* limit is a multiple of one lakh and no multiple of one lakh is nearer to x.
NearestLakh(limit, x) ==
    /\ limit % lakh = 0
    /\ 2 * (IF limit >= x THEN limit - x ELSE x - limit) <= lakh

\* C20: register_customer stores a new customer whose approved_limit equals 36
\* times the submitted monthly income rounded to the nearest multiple of
\* 100,000 (one lakh), with monthly_salary equal to the submitted income and
\* current_debt 0.
C20_RegisteredCustomer ==
    [][(last'.op = "register_customer" /\ registration_is_valid(last'.req))
       => \E i \in DOMAIN customers' :
              /\ i \notin DOMAIN customers
              /\ DOMAIN customers' = DOMAIN customers \cup {i}
              /\ \A k \in DOMAIN customers : customers'[k] = customers[k]
              /\ customers'[i].monthly_salary = last'.req.monthly_income
              /\ customers'[i].current_debt = 0
              /\ NearestLakh(customers'[i].approved_limit,
                             36 * last'.req.monthly_income)]_vars

\* C20 witness: the customer registered last has a limit above 36 times the
\* income and a positive income: the limit was rounded up to a lakh.
C20_Witness ==
    /\ last.op = "register_customer"
    /\ last.resp.status = 201
    /\ last.req.monthly_income > 0
    /\ customers[last.resp.customer_id].monthly_salary = last.req.monthly_income
    /\ customers[last.resp.customer_id].approved_limit
           > 36 * last.req.monthly_income

\* The loan-count points C21 lists.
ClaimedLoanCount(total_loans) ==
    CASE total_loans = 1 -> 18
      [] total_loans = 2 -> 15
      [] total_loans = 3 -> 12
      [] total_loans \in {4, 5} -> 8
      [] total_loans >= 6 -> 5

\* The loans of a customer that start or end in the calendar year of today.
LoansOfThisYear(customer_id) ==
    {l \in loans : /\ l.customer = customer_id
                    /\ \/ l.start_date \div 12 = today \div 12
                       \/ l.end_date \div 12 = today \div 12}

\* The recent-activity points C21 lists.
ClaimedRecentActivity(count) ==
    CASE count = 0 -> 20
      [] count = 1 -> 15
      [] count = 2 -> 10
      [] count >= 3 -> 5

\* The score C21 states for a customer with loans within the limit.
ClaimedScore(customer_id) ==
    LET rows == {l \in loans : l.customer = customer_id}
        sum == on_time_component(Sum(rows, "tenure"), Sum(rows, "emis_paid_on_time"))
               + ClaimedLoanCount(Cardinality(rows))
               + ClaimedRecentActivity(Cardinality(LoansOfThisYear(customer_id)))
               + utilization_component(ActiveLoanTotal(customer_id),
                                       customers[customer_id].approved_limit)
    IN IF sum < 0 THEN 0 ELSE IF sum > 100 THEN 100 ELSE sum

\* C21: for a customer with at least one loan whose active loan total does not
\* exceed the approved limit, calculate_credit_score is the sum of the on-time,
\* loan-count, recent-activity and utilization components clamped to 0..100,
\* with loan-count 18/15/12/8/8/5 for 1/2/3/4/5/>=6 loans and recent-activity
\* 20/15/10/5 for 0/1/2/>=3 loans that start or end in the current calendar
\* year (a loan that started before and ends after the year is not counted).
C21_ScoreIsSumOfComponents ==
    (/\ Scored
     /\ \E l \in loans : l.customer = last.customer_id
     /\ ActiveLoanTotal(last.customer_id)
            <= customers[last.customer_id].approved_limit)
    => last.score = ClaimedScore(last.customer_id)

\* C21 witness: a score for five loans within the limit, one of which started
\* before the current year and ends after it.
C21_Witness ==
    /\ Scored
    /\ Cardinality({l \in loans : l.customer = last.customer_id}) = 5
    /\ ActiveLoanTotal(last.customer_id)
           <= customers[last.customer_id].approved_limit
    /\ \E l \in loans : /\ l.customer = last.customer_id
                         /\ l.start_date \div 12 < today \div 12
                         /\ l.end_date \div 12 > today \div 12
    /\ last.score = ClaimedScore(last.customer_id)

\* C22: for every loan history with total tenure > 0 the on-time component
\* added to the score is floor(40 * (sum of emis_paid_on_time) / (sum of
\* tenure)) and lies between 0 and 40 inclusive; when the total tenure is 0
\* the component is 0.
C22_OnTimeComponent ==
    (/\ Scored
     /\ \E l \in loans : l.customer = last.customer_id
     /\ ActiveLoanTotal(last.customer_id)
            <= customers[last.customer_id].approved_limit)
    => LET rows == {l \in loans : l.customer = last.customer_id}
           total_emis == Sum(rows, "tenure")
           paid == Sum(rows, "emis_paid_on_time")
           component == on_time_component(total_emis, paid)
       IN IF total_emis > 0
          THEN /\ 40 * paid >= component * total_emis
               /\ 40 * paid < (component + 1) * total_emis
               /\ component \in 0..40
          ELSE component = 0

\* The utilization points C23 lists, the ratio total / approved_limit compared
\* in hundredths.
ClaimedUtilization(total, approved_limit) ==
    IF approved_limit = 0 THEN 0
    ELSE CASE 100 * total <= 30 * approved_limit -> 20
           [] 30 * approved_limit < 100 * total
              /\ 100 * total <= 50 * approved_limit -> 15
           [] 50 * approved_limit < 100 * total
              /\ 100 * total <= 70 * approved_limit -> 10
           [] 70 * approved_limit < 100 * total -> 5

\* The score without its utilization component, for a customer with loans
\* within the limit.
ScoreBeforeUtilization(customer_id) ==
    LET rows == {l \in loans : l.customer = customer_id}
    IN on_time_component(Sum(rows, "tenure"), Sum(rows, "emis_paid_on_time"))
       + loan_count_component(Cardinality(rows))
       + recent_activity_component(Cardinality(LoansOfThisYear(customer_id)))

\* C23: the utilization component is 20 when active loan total /
\* approved_limit <= 0.30, 15 when <= 0.50, 10 when <= 0.70 and 5 otherwise,
\* each boundary value falling in the higher-scoring band; when approved_limit
\* is 0 the component contributes 0.
C23_UtilizationBands ==
    (/\ Scored
     /\ \E l \in loans : l.customer = last.customer_id
     /\ ActiveLoanTotal(last.customer_id)
            <= customers[last.customer_id].approved_limit
     /\ ScoreBeforeUtilization(last.customer_id) <= 80)
    => last.score - ScoreBeforeUtilization(last.customer_id)
           = ClaimedUtilization(ActiveLoanTotal(last.customer_id),
                                customers[last.customer_id].approved_limit)

\* C23 witness: a score for an active loan total of exactly 0.70 of the
\* approved limit, with 10 points for the utilization.
C23_Witness ==
    /\ Scored
    /\ customers[last.customer_id].approved_limit > 0
    /\ 10 * ActiveLoanTotal(last.customer_id)
           = 7 * customers[last.customer_id].approved_limit
    /\ last.score - ScoreBeforeUtilization(last.customer_id) = 10

\* Twice the monthly repayments of the active loans of a customer do not
\* exceed the monthly salary.
RepaymentsWithinHalfSalary(customer_id) ==
    2 * Sum({l \in loans : l.customer = customer_id /\ l.end_date >= today},
            "monthly_repayment")
        <= customers[customer_id].monthly_salary

\* C24: starting from a customer whose active loans' monthly repayments total
\* at most half the monthly salary, after any sequence of create_loan requests
\* for that customer (same day, salary unchanged) the sum of monthly_repayment
\* over the customer's active loans never exceeds 0.5 * monthly_salary, also
\* for loans approved with a corrected interest rate.
C24_RepaymentsWithinHalfSalary ==
    \A customer_id \in DOMAIN customers : RepaymentsWithinHalfSalary(customer_id)

\* C25: once the total principal of a customer's active loans strictly exceeds
\* the approved limit, every later check_loan_eligibility and create_loan
\* request for that customer is not approved and creates no loan, for as long
\* as those loans stay active and the limit is unchanged.
C25_OverLimitBlocks ==
    [][\A customer_id \in DOMAIN customers :
          (/\ ActiveLoanTotal(customer_id) > customers[customer_id].approved_limit
           /\ last'.op \in {"check_loan_eligibility", "create_loan"}
           /\ last'.req.customer_id = customer_id)
          => (~last'.elig.approval /\ loans' = loans)]_vars

\* C25 witness: create_loan rejected a request for its low score, from a
\* customer with a positive limit whose total went over the limit with a loan
\* create_loan stored today.
C25_Witness ==
    /\ last.op = "create_loan"
    /\ last.req.customer_id \in DOMAIN customers
    /\ customers[last.req.customer_id].approved_limit > 0
    /\ ActiveLoanTotal(last.req.customer_id)
           > customers[last.req.customer_id].approved_limit
    /\ \E l \in loans : /\ l.customer = last.req.customer_id
                         /\ l.start_date = today
                         /\ ActiveLoanTotal(last.req.customer_id) - l.loan_amount
                                <= customers[last.req.customer_id].approved_limit
    /\ ~last.elig.approval
    /\ last.elig.message = "Credit score too low for loan approval"

\* C26: for a customer with approved_limit > 0 whose active loan total does
\* not exceed the approved limit the credit score is at least 15, so
\* check_loan_eligibility never returns 'Credit score too low for loan
\* approval' for that customer: a low-score rejection occurs only when the
\* active loan total exceeds the limit or the approved limit is 0.
C26_ScoreAtLeast15 ==
    /\ (/\ Scored
        /\ customers[last.customer_id].approved_limit > 0
        /\ ActiveLoanTotal(last.customer_id)
               <= customers[last.customer_id].approved_limit)
       => last.score >= 15
    /\ (/\ Decided
        /\ last.req.customer_id \in DOMAIN customers
        /\ last.elig.message = "Credit score too low for loan approval")
       => \/ ActiveLoanTotal(last.req.customer_id)
                > customers[last.req.customer_id].approved_limit
          \/ customers[last.req.customer_id].approved_limit = 0

\* C26 witness: the score 15 of six loans of this year, none paid on time,
\* that use more than 0.70 of a positive limit without exceeding it.
C26_Witness ==
    /\ Scored
    /\ customers[last.customer_id].approved_limit > 0
    /\ ActiveLoanTotal(last.customer_id)
           <= customers[last.customer_id].approved_limit
    /\ Cardinality({l \in loans : l.customer = last.customer_id}) >= 6
    /\ last.score = 15

====
